---- MODULE Spec2Model ----
(***************************************************************************)
(* Bing aerial imagery retrieval: the tile-coordinate algebra of           *)
(* bingTileSystem.py, the bounding box of BoundingBox.py and the level     *)
(* search of imageRetrieval.py (BingAerialImage and main).                 *)
(*                                                                         *)
(* Numbers.  Python's floats are modelled in fixed point:                  *)
(*   - a latitude or longitude in degrees is an integer count of           *)
(*     micro-degrees (48.994435 degrees is 48994435);                      *)
(*   - an angle in radians is an integer count of (pi/180)*1e-7 rad: ten   *)
(*     radian units make one degree unit, and x*180/pi drops what is       *)
(*     below a micro-degree;                                               *)
(*   - an arc length s is an integer count of (pi/180)*1e-3 length units,  *)
(*     so that s/r, in radians, is (s*10000)/r of the radian unit          *)
(*     (s = 0.15 is 8594);                                                 *)
(*   - the Mercator ordinate y of latLongToPixelXY is a 2^-24 fraction.    *)
(* Strings are sequences of one-character strings.                         *)
(***************************************************************************)
EXTENDS Integers, Sequences, FiniteSets, TLC

VARIABLES
    \* ---- BingAerialImage / main (imageRetrieval.py)
    pc,           \* position of main: "new", "loop", "fetch", "returned", "raised", "exit"
    lat, lon,     \* self.lat, self.lon
    arc,          \* self.arc
    upper_left,   \* self.upper_left
    lower_right,  \* self.lower_right
    tileSize,     \* self.tileSize  (imageHeight of the service metadata)
    maxZoom,      \* self.maxZoom   (zoomMax of the service metadata)
    nullCached,   \* os.path.exists('null.png')
    levl,         \* loop variable of max_resolution_imagery_retrieval
    tileX, tileY, \* loop variables of the two tile loops
    quadkey,      \* quadkey of the download the row loop stands at (line 171)
    pasted,       \* valid tiles of the running level in imagelist or pasted in result
    retval,       \* what max_resolution_imagery_retrieval returned
    report,       \* what main printed after the call
    outcome,      \* per level: how its evaluation ended
    fetchedAt,    \* levels at which a tile download was issued
    evaluated,    \* levels in the order the loop body was entered
    written,      \* images saved: level, crop rectangle, composite size
    \* ---- the quadkey functions taken alone (bingTileSystem.py)
    qpc,          \* "input", "encoded", "decoded"
    qTileX, qTileY, qLevel,
    qKey,         \* tileXYToQuadKey(qTileX, qTileY, qLevel)
    qDecoded      \* quadKeyToTileXY(qKey)

retrievalVars == <<pc, lat, lon, arc, upper_left, lower_right, tileSize, maxZoom,
                   nullCached, levl, tileX, tileY, quadkey, pasted, retval, report,
                   outcome, fetchedAt, evaluated, written>>
quadKeyVars == <<qpc, qTileX, qTileY, qLevel, qKey, qDecoded>>
vars == <<retrievalVars, quadKeyVars>>

----------------------------------------------------------------------------
(* Bounds of the model *)

\* the service's zoomMax is drawn from 1..MaxZoomCap
MaxZoomCap == 10
\* quadkeys: every tile of every level up to FullLevels is an input ...
FullLevels == 4
\* ... and a sample of the tiles of each level up to MaxLevelOfDetail
MaxLevelOfDetail == 10

----------------------------------------------------------------------------
(* Small helpers *)

Min(a, b) == IF a < b THEN a ELSE b
Max(a, b) == IF a > b THEN a ELSE b
Abs(a) == IF a < 0 THEN -a ELSE a

RECURSIVE Pow2(_)
Pow2(n) == IF n = 0 THEN 1 ELSE 2 * Pow2(n - 1)

\* a * b > m for a, b >= 0, decided without forming the product, which may
\* pass 2^31 (Python's integers are unbounded)
ProductExceeds(a, b, m) == b > 0 /\ a > m \div b

----------------------------------------------------------------------------
(* bingTileSystem.py: TileSystem, strings *)

\* str(n) for a one-digit n
Str(n) ==
    CASE n = 0 -> "0" [] n = 1 -> "1" [] n = 2 -> "2" [] n = 3 -> "3"
      [] n = 4 -> "4" [] n = 5 -> "5" [] n = 6 -> "6" [] n = 7 -> "7"
      [] n = 8 -> "8" [] n = 9 -> "9"

\* int(c) for a one-character decimal string
IntOfChar(c) ==
    CASE c = "0" -> 0 [] c = "1" -> 1 [] c = "2" -> 2 [] c = "3" -> 3
      [] c = "4" -> 4 [] c = "5" -> 5 [] c = "6" -> 6 [] c = "7" -> 7
      [] c = "8" -> 8 [] c = "9" -> 9

\* '{0:b}'.format(n): the binary numeral of n >= 0, no leading zeros
RECURSIVE BinaryDigits(_)
BinaryDigits(n) ==
    IF n < 2 THEN <<Str(n)>> ELSE BinaryDigits(n \div 2) \o <<Str(n % 2)>>

\* '{0:0{1}b}'.format(n, width): zero-padded on the left to at least width
FormatBinary(n, width) ==
    LET digits == BinaryDigits(n)
        pad == Max(0, width - Len(digits))
    IN  [i \in 1..pad |-> "0"] \o digits

\* int(s, 2) for a string of binary digits
RECURSIVE IntBase2(_)
IntBase2(s) ==
    IF Len(s) = 0 THEN 0
    ELSE 2 * IntBase2(SubSeq(s, 1, Len(s) - 1)) + IntOfChar(s[Len(s)])

\* ''.join(chain(*zip(a, b))): a[0] b[0] a[1] b[1] ..., up to the shorter one
ChainZip(a, b) ==
    LET n == Min(Len(a), Len(b))
    IN  [i \in 1..(2 * n) |-> IF i % 2 = 1 THEN a[(i + 1) \div 2] ELSE b[i \div 2]]

\* re.findall('..?', s): the chunks of two characters, a last one of one
FindAllPairs(s) ==
    LET n == (Len(s) + 1) \div 2
    IN  [i \in 1..n |-> SubSeq(s, 2 * i - 1, Min(2 * i, Len(s)))]

\* s[start::2] with a 0-based start
EverySecond(s, start) ==
    LET n == IF Len(s) > start THEN (Len(s) - start + 1) \div 2 ELSE 0
    IN  [i \in 1..n |-> s[start + 2 * i - 1]]

\* ''.join(parts)
RECURSIVE Join(_)
Join(parts) ==
    IF Len(parts) = 0 THEN <<>> ELSE parts[1] \o Join(Tail(parts))

\* the zip of line 199 with its two arguments exchanged
tileXYToQuadKeyXFirst(tx, ty, levelOfDetail) ==
    LET tileXbits == FormatBinary(tx, levelOfDetail)
        tileYbits == FormatBinary(ty, levelOfDetail)
        quadkeybinary == ChainZip(tileXbits, tileYbits)
        pairs == FindAllPairs(quadkeybinary)
    IN  [i \in 1..Len(pairs) |-> Str(IntBase2(pairs[i]))]

tileXYToQuadKey(tx, ty, levelOfDetail) ==
    LET tileXbits == FormatBinary(tx, levelOfDetail)
        tileYbits == FormatBinary(ty, levelOfDetail)
        quadkeybinary == ChainZip(tileYbits, tileXbits)
        pairs == FindAllPairs(quadkeybinary)
    IN  [i \in 1..Len(pairs) |-> Str(IntBase2(pairs[i]))]

\* returns the pair (tileX, tileY): the return statement of line 221
quadKeyToTileXY(quadKey) ==
    LET quadkeybinary ==
            Join([i \in 1..Len(quadKey) |-> FormatBinary(IntOfChar(quadKey[i]), 2)])
        tx == IntBase2(EverySecond(quadkeybinary, 1))
        ty == IntBase2(EverySecond(quadkeybinary, 0))
    IN  <<tx, ty>>

----------------------------------------------------------------------------
(* bingTileSystem.py: TileSystem, coordinates *)

\* 85.05112878 degrees, in micro-degrees (rounded to the next one)
MAXLAT == 85051129
MINLAT == -85051129
MAXLON == 180000000
MINLON == -180000000
TILESIZE == 256

clip(n, minValue, maxValue) == Min(Max(n, minValue), maxValue)

\* 256 << levelOfDetail
mapSize(levelOfDetail) == 256 * Pow2(levelOfDetail)

\* y = 0.5 - log((1 + sinLatitude) / (1 - sinLatitude)) / (4 * pi) of a clipped
\* latitude, as floor(y * 2^24): the value the source computes in IEEE double
\* at each latitude a corner of the model's requests can have.
MercatorY(latitude) ==
    CASE latitude = -1000000 -> 8435213
      [] latitude =  1000000 -> 8342002
      [] latitude = 25000000 -> 7184691
      [] latitude = 44750000 -> 6051625
      [] latitude = 45250000 -> 6018671
      [] latitude = 48992266 -> 5762216
      [] latitude = 48996603 -> 5761908
      [] latitude = 55000000 -> 5306597
      [] latitude = 84750000 -> 157931
      [] latitude = MAXLAT   -> -1
      [] latitude = MINLAT   -> 16777216

\* floor(x * mapSize + 0.5) for x = (longitude + 180) / 360.  With
\* 360e6 = 2^9 * 703125 and a = longitude + 180e6 = q * 703125 + rem,
\* x * mapSize + 0.5 = q * 2^(z-1) + (rem * 2^z + 703125) / 1406250.
PixelOfX(longitude, levelOfDetail) ==
    LET a == longitude + 180000000
        q == a \div 703125
        rem == a % 703125
    IN  q * Pow2(levelOfDetail - 1)
          + (rem * Pow2(levelOfDetail) + 703125) \div 1406250

\* floor(y * mapSize + 0.5) for y a 2^-24 fraction:
\* floor((floor(y * 2 * mapSize) + 1) / 2), 2 * mapSize = 2^(9+z)
PixelOfY(y, levelOfDetail) ==
    (y \div Pow2(24 - 9 - levelOfDetail) + 1) \div 2

latLongToPixelXY(latitude, longitude, levelOfDetail) ==
    LET latitudeC == clip(latitude, MINLAT, MAXLAT)
        longitudeC == clip(longitude, MINLON, MAXLON)
        size == mapSize(levelOfDetail)
        pixelX == clip(PixelOfX(longitudeC, levelOfDetail), 0, size - 1)
        pixelY == clip(PixelOfY(MercatorY(latitudeC), levelOfDetail), 0, size - 1)
    IN  <<pixelX, pixelY>>

pixelXYToTileXY(pixelX, pixelY) == <<pixelX \div TILESIZE, pixelY \div TILESIZE>>

tileXYToPixelXY(tx, ty) == <<tx * TILESIZE, ty * TILESIZE>>

----------------------------------------------------------------------------
(* BoundingBox.py *)

\* x * pi / 180: micro-degrees to the radian unit, a tenth of pi/180 micro-radian
ToRadians(x) == x * 10
\* x * 180 / pi: back to micro-degrees
ToDegrees(x) == x \div 10

\* s / r in the radian unit: floor(s * 10000 / r), the product not formed
ArcOverRadius(s, r) == (s \div r) * 10000 + ((s % r) * 10000) \div r

boundingBox(latitude, longitude, s, mode) ==
    LET r == 3963
        lat_rad == ToRadians(latitude)
        lon_rad == ToRadians(longitude)
        upper_right == <<lat_rad + ArcOverRadius(s, r), lon_rad + ArcOverRadius(s, r)>>
        lower_right_ == <<lat_rad + ArcOverRadius(s, r), lon_rad - ArcOverRadius(s, r)>>
        upper_left_ == <<lat_rad - ArcOverRadius(s, r), lon_rad + ArcOverRadius(s, r)>>
        lower_left == <<lat_rad - ArcOverRadius(s, r), lon_rad - ArcOverRadius(s, r)>>
        coordinates == <<upper_left_, upper_right, lower_left, lower_right_>>
        bounds == [i \in 1..4 |->
                     <<ToDegrees(coordinates[i][1]), ToDegrees(coordinates[i][2])>>]
    IN  IF mode = 1 THEN bounds
        ELSE IF mode = 2 THEN <<bounds[1], bounds[4]>>
        ELSE bounds

----------------------------------------------------------------------------
(* imageRetrieval.py: BingAerialImage *)

MAXSIZE == 8192 * 8192 * 8

\* The requests (lat, lon, s) the model is run on:
\*   the coordinates of BoundingBox.main with the default s = 0.15,
\*   a box of half a degree, a box of thirty degrees,
\*   a box that reaches over MAXLAT and MAXLON, a box of two degrees at (0, 0).
Requests ==
    { <<48994435,   12111247,     8594>>,
      <<45000000,   10000000,   990750>>,
      <<40000000, -100000000, 59445000>>,
      <<85000000,  179900000,   990750>>,
      <<0,                 0,  3963000>> }

\* imageHeight values the metadata service may answer with
TileSizes == {128, 256, 512}

Levels == 1..MaxZoomCap

\* lines 108-112: the two corners in pixels at level l, normalised
PixelBox(l) ==
    LET p1 == latLongToPixelXY(upper_left[1], upper_left[2], l)
        p2 == latLongToPixelXY(lower_right[1], lower_right[2], l)
    IN  [pixelX1 |-> Min(p1[1], p2[1]), pixelX2 |-> Max(p1[1], p2[1]),
         pixelY1 |-> Min(p1[2], p2[2]), pixelY2 |-> Max(p1[2], p2[2])]

\* lines 125-126
TileBox(l) ==
    LET b == PixelBox(l)
        t1 == pixelXYToTileXY(b.pixelX1, b.pixelY1)
        t2 == pixelXYToTileXY(b.pixelX2, b.pixelY2)
    IN  [tileX1 |-> t1[1], tileY1 |-> t1[2], tileX2 |-> t2[1], tileY2 |-> t2[2]]

\* line 117 with "and" for "or"
IsDegenerateBothAxes(l) ==
    LET b == PixelBox(l)
    IN  Abs(b.pixelX1 - b.pixelX2) <= 1 /\ Abs(b.pixelY1 - b.pixelY2) <= 1

\* line 117 with "< 1" for "<= 1"
IsDegenerateStrict(l) ==
    LET b == PixelBox(l)
    IN  Abs(b.pixelX1 - b.pixelX2) < 1 \/ Abs(b.pixelY1 - b.pixelY2) < 1

\* line 117
IsDegenerate(l) ==
    LET b == PixelBox(l)
    IN  Abs(b.pixelX1 - b.pixelX2) <= 1 \/ Abs(b.pixelY1 - b.pixelY2) <= 1

\* line 121 with the width alone held against MAXSIZE
IsOversizedWidthOnly(l) ==
    LET b == PixelBox(l)
    IN  Abs(b.pixelX1 - b.pixelX2) > MAXSIZE

\* line 121
IsOversized(l) ==
    LET b == PixelBox(l)
    IN  ProductExceeds(Abs(b.pixelX1 - b.pixelX2), Abs(b.pixelY1 - b.pixelY2), MAXSIZE)

\* lines 129 and 141-149: the image saved at level l once its last tile is in
SavedImage(l) ==
    LET b == PixelBox(l)
        t == TileBox(l)
        leftup == tileXYToPixelXY(t.tileX1, t.tileY1)
    IN  [level |-> l,
         tiles |-> pasted + 1,
         size |-> <<(t.tileX2 - t.tileX1 + 1) * tileSize,
                    (t.tileY2 - t.tileY1 + 1) * tileSize>>,
         crop |-> <<b.pixelX1 - leftup[1], b.pixelY1 - leftup[2],
                    b.pixelX2 - leftup[1], b.pixelY2 - leftup[2]>>]

RetrievalInit ==
    /\ pc = "new"
    /\ \E req \in Requests : lat = req[1] /\ lon = req[2] /\ arc = req[3]
    /\ upper_left = <<0, 0>>
    /\ lower_right = <<0, 0>>
    /\ tileSize = 0
    /\ maxZoom = 0
    /\ nullCached \in BOOLEAN
    /\ levl = 0
    /\ tileX = 0
    /\ tileY = 0
    /\ quadkey = <<>>
    /\ pasted = 0
    /\ retval = "unset"
    /\ report = "none"
    /\ outcome = [l \in Levels |-> "untried"]
    /\ fetchedAt = {}
    /\ evaluated = <<>>
    /\ written = <<>>

\* line 107 with a step of -2
ContinueStepTwo(l) ==
    IF l > 2
    THEN pc' = "loop" /\ levl' = l - 2 /\ retval' = retval
    ELSE pc' = "returned" /\ levl' = l /\ retval' = "False"

\* the loop header of line 107 after the body ended at level l by continue:
\* the next level, or the return False of line 151
Continue(l) ==
    IF l > 1
    THEN pc' = "loop" /\ levl' = l - 1 /\ retval' = retval
    ELSE pc' = "returned" /\ levl' = l /\ retval' = "False"

\* main, line 200: BingAerialImage(lat, lon), that is __init__ with
\* currentBaseURL, up to the call of max_resolution_imagery_retrieval
Construct ==
    /\ pc = "new"
    /\ upper_left' = boundingBox(lat, lon, arc, 2)[1]
    /\ lower_right' = boundingBox(lat, lon, arc, 2)[2]
    /\ \/ \* r.status_code != 200: raise Exception
          /\ pc' = "raised"
          /\ UNCHANGED <<tileSize, maxZoom, levl>>
       \/ \E size \in TileSizes, zoom \in 1..MaxZoomCap :
            /\ tileSize' = size
            /\ maxZoom' = zoom
            /\ levl' = zoom
            /\ pc' = "loop"
    /\ UNCHANGED <<lat, lon, arc, nullCached, tileX, tileY, quadkey, pasted, retval,
                   report, outcome, fetchedAt, evaluated, written>>

\* lines 108-126 and 129-131: the body of the level loop up to the first download
EvalLevel ==
    /\ pc = "loop"
    /\ evaluated' = Append(evaluated, levl)
    /\ IF IsDegenerate(levl)
       THEN /\ outcome' = [outcome EXCEPT ![levl] = "degenerate"]
            /\ retval' = "None"
            /\ pc' = "returned"
            /\ UNCHANGED <<levl, tileX, tileY, quadkey, pasted>>
       ELSE IF IsOversized(levl)
       THEN /\ outcome' = [outcome EXCEPT ![levl] = "oversize"]
            /\ Continue(levl)
            /\ UNCHANGED <<tileX, tileY, quadkey, pasted>>
       ELSE /\ outcome' = [outcome EXCEPT ![levl] = "fetching"]
            /\ tileX' = TileBox(levl).tileX1
            /\ tileY' = TileBox(levl).tileY1
            /\ quadkey' = tileXYToQuadKey(TileBox(levl).tileX1, TileBox(levl).tileY1, levl)
            /\ pasted' = 0
            /\ pc' = "fetch"
            /\ UNCHANGED <<levl, retval>>
    /\ UNCHANGED <<lat, lon, arc, upper_left, lower_right, tileSize, maxZoom,
                   nullCached, report, fetchedAt, written>>

\* lines 172-177: a network error of download_image (of the tile, or of the
\* null image inside is_valid_image) is caught nowhere
FetchRaises ==
    /\ pc = "fetch"
    /\ fetchedAt' = fetchedAt \cup {levl}
    /\ outcome' = [outcome EXCEPT ![levl] = "error"]
    /\ pc' = "raised"
    /\ UNCHANGED <<lat, lon, arc, upper_left, lower_right, tileSize, maxZoom, nullCached,
                   levl, tileX, tileY, quadkey, pasted, retval, report, evaluated,
                   written>>

\* lines 175-177 without the return: the row loop goes on after a null image
FetchPlaceholderGoesOn ==
    /\ pc = "fetch"
    /\ fetchedAt' = fetchedAt \cup {levl}
    /\ nullCached' = TRUE
    /\ outcome' = [outcome EXCEPT ![levl] = "tilefail"]
    /\ IF tileX < TileBox(levl).tileX2
       THEN /\ tileX' = tileX + 1
            /\ quadkey' = tileXYToQuadKey(tileX + 1, tileY, levl)
            /\ UNCHANGED <<pc, levl, tileY, retval, pasted>>
       ELSE /\ Continue(levl)
            /\ tileX' = 0
            /\ tileY' = 0
            /\ quadkey' = <<>>
            /\ pasted' = 0
    /\ UNCHANGED <<lat, lon, arc, upper_left, lower_right, tileSize, maxZoom,
                   report, evaluated, written>>

\* lines 172-177, 133-138: the tile is the null image
FetchPlaceholder ==
    /\ pc = "fetch"
    /\ fetchedAt' = fetchedAt \cup {levl}
    /\ nullCached' = TRUE
    /\ outcome' = [outcome EXCEPT ![levl] = "tilefail"]
    /\ Continue(levl)
    /\ tileX' = 0
    /\ tileY' = 0
    /\ quadkey' = <<>>
    /\ pasted' = 0
    /\ UNCHANGED <<lat, lon, arc, upper_left, lower_right, tileSize, maxZoom,
                   report, evaluated, written>>

\* lines 172-174, then the next tile of the row (170-171), the next row
\* (178-181, 135, 131-132) or the crop and save (141-150)
FetchValid ==
    /\ pc = "fetch"
    /\ fetchedAt' = fetchedAt \cup {levl}
    /\ nullCached' = TRUE
    /\ pasted' = IF tileX = TileBox(levl).tileX2 /\ tileY = TileBox(levl).tileY2
                 THEN 0 ELSE pasted + 1
    /\ IF tileX < TileBox(levl).tileX2
       THEN /\ tileX' = tileX + 1
            /\ quadkey' = tileXYToQuadKey(tileX + 1, tileY, levl)
            /\ UNCHANGED <<pc, tileY, retval, outcome, written>>
       ELSE IF tileY < TileBox(levl).tileY2
       THEN /\ tileX' = TileBox(levl).tileX1
            /\ tileY' = tileY + 1
            /\ quadkey' = tileXYToQuadKey(TileBox(levl).tileX1, tileY + 1, levl)
            /\ UNCHANGED <<pc, retval, outcome, written>>
       ELSE /\ written' = Append(written, SavedImage(levl))
            /\ outcome' = [outcome EXCEPT ![levl] = "written"]
            /\ retval' = "True"
            /\ pc' = "returned"
            /\ tileX' = 0
            /\ tileY' = 0
            /\ quadkey' = <<>>
    /\ UNCHANGED <<lat, lon, arc, upper_left, lower_right, tileSize, maxZoom,
                   levl, report, evaluated>>

\* main, lines 201-204
MainReport ==
    /\ pc = "returned"
    /\ report' = IF retval = "True" THEN "Successfully retrieve"
                 ELSE "Cannot retrieve"
    /\ pc' = "exit"
    /\ UNCHANGED <<lat, lon, arc, upper_left, lower_right, tileSize, maxZoom,
                   nullCached, levl, tileX, tileY, quadkey, pasted, retval,
                   outcome, fetchedAt, evaluated, written>>

----------------------------------------------------------------------------
(* The quadkey functions on their own inputs *)

\* tile indices of level z the quadkey functions are run on
Tiles(z) ==
    IF z <= FullLevels THEN 0..(Pow2(z) - 1)
    ELSE { 0, 1, Pow2(z - 1) - 1, Pow2(z - 1), Pow2(z) - 2, Pow2(z) - 1,
           (Pow2(z) - 1) \div 3, 2 * ((Pow2(z) - 1) \div 3) }

QuadKeyIdle ==
    /\ qpc = "idle" /\ qTileX = 0 /\ qTileY = 0 /\ qLevel = 0
    /\ qKey = <<>> /\ qDecoded = <<>>

RetrievalIdle ==
    /\ pc = "idle" /\ lat = 0 /\ lon = 0 /\ arc = 0
    /\ upper_left = <<0, 0>> /\ lower_right = <<0, 0>>
    /\ tileSize = 0 /\ maxZoom = 0 /\ nullCached = FALSE
    /\ levl = 0 /\ tileX = 0 /\ tileY = 0 /\ quadkey = <<>> /\ pasted = 0
    /\ retval = "unset" /\ report = "none"
    /\ outcome = [l \in Levels |-> "untried"]
    /\ fetchedAt = {} /\ evaluated = <<>> /\ written = <<>>

QuadKeyInit ==
    /\ qpc = "input"
    /\ qLevel \in 1..MaxLevelOfDetail
    /\ qTileX \in Tiles(qLevel)
    /\ qTileY \in Tiles(qLevel)
    /\ qKey = <<>>
    /\ qDecoded = <<>>

Encode ==
    /\ qpc = "input"
    /\ qKey' = tileXYToQuadKey(qTileX, qTileY, qLevel)
    /\ qpc' = "encoded"
    /\ UNCHANGED <<qTileX, qTileY, qLevel, qDecoded>>

Decode ==
    /\ qpc = "encoded"
    /\ qDecoded' = quadKeyToTileXY(qKey)
    /\ qpc' = "decoded"
    /\ UNCHANGED <<qTileX, qTileY, qLevel, qKey>>

----------------------------------------------------------------------------
(* Specifications *)

Init == RetrievalInit /\ QuadKeyIdle

Next ==
    \/ Construct /\ UNCHANGED quadKeyVars
    \/ EvalLevel /\ UNCHANGED quadKeyVars
    \/ FetchRaises /\ UNCHANGED quadKeyVars
    \/ FetchPlaceholder /\ UNCHANGED quadKeyVars
    \/ FetchValid /\ UNCHANGED quadKeyVars
    \/ MainReport /\ UNCHANGED quadKeyVars

Spec == Init /\ [][Next]_vars

QuadKeyNext ==
    \/ Encode /\ UNCHANGED retrievalVars
    \/ Decode /\ UNCHANGED retrievalVars

InitQuadKey == QuadKeyInit /\ RetrievalIdle

SpecQuadKey == InitQuadKey /\ [][QuadKeyNext]_vars

----------------------------------------------------------------------------
(* Properties *)

\* bit k of n (bit 0 is the least significant one)
Bit(n, k) == (n \div Pow2(k)) % 2

\* the pixel span of the bounding box at level l, from the two projected corners
SpanX(l) ==
    Abs(latLongToPixelXY(upper_left[1], upper_left[2], l)[1]
          - latLongToPixelXY(lower_right[1], lower_right[2], l)[1])
SpanY(l) ==
    Abs(latLongToPixelXY(upper_left[1], upper_left[2], l)[2]
          - latLongToPixelXY(lower_right[1], lower_right[2], l)[2])
SpanDegenerate(l) == SpanX(l) <= 1 \/ SpanY(l) <= 1
OverBudget(l) == ProductExceeds(SpanX(l), SpanY(l), 8192 * 8192 * 8)

\* level l was evaluated and the loop went on to level l - 1 (or, from level 1,
\* to the return False that follows the loop)
WentOnFrom(l) ==
    \E i \in 1..Len(evaluated) :
        /\ evaluated[i] = l
        /\ IF l > 1
           THEN \/ i < Len(evaluated) /\ evaluated[i + 1] = l - 1
                \/ i = Len(evaluated) /\ pc = "loop" /\ levl = l - 1
           ELSE i = Len(evaluated) /\ retval = "False" /\ pc \in {"returned", "exit"}

WrittenLevels == {written[i].level : i \in 1..Len(written)}

\* C1: decoding the quadkey of tile (tx, ty) at level z gives back the triple
\* (tx, ty, z): the same tile X, the same tile Y and the same level.
C1_RoundTripWithLevel ==
    qpc = "decoded" => qDecoded = <<qTileX, qTileY, qLevel>>

\* C2: the quadkey of (tx, ty) at level z has exactly z characters, each in
\* '0'..'3', and its i-th character (i = 0 the most significant position) is
\* 2 * (bit i of ty) + (bit i of tx), the indices written as z-bit numbers.
C2_QuadKeyDigits ==
    qpc \in {"encoded", "decoded"} =>
        /\ Len(qKey) = qLevel
        /\ \A i \in 0..(qLevel - 1) :
             /\ qKey[i + 1] \in {"0", "1", "2", "3"}
             /\ IntOfChar(qKey[i + 1])
                  = 2 * Bit(qTileY, qLevel - 1 - i) + Bit(qTileX, qLevel - 1 - i)

\* the fixture tileXYToQuadKey(3, 5, 3): tx = 011b, ty = 101b give "213"
C2_Witness ==
    /\ qpc = "encoded" /\ qTileX = 3 /\ qTileY = 5 /\ qLevel = 3
    /\ qKey = <<"2", "1", "3">>

\* C3: the levels are evaluated in strictly descending order maxZoom,
\* maxZoom - 1, ..., none is evaluated after a success, and when the search
\* succeeds at level L every level above L up to maxZoom was evaluated before
\* and was over the pixel budget or had an unavailable tile, while L itself is
\* within budget and had all its tiles.
C3_DescendingFirstWins ==
    /\ \A i \in 1..Len(evaluated) :
         evaluated[i] = maxZoom - i + 1 /\ evaluated[i] >= 1
    /\ Len(written) <= 1
    /\ \A L \in WrittenLevels :
         /\ evaluated[Len(evaluated)] = L
         /\ retval = "True"
         /\ ~OverBudget(L)
         /\ outcome[L] = "written"
         /\ \A L2 \in (L + 1)..maxZoom :
              /\ \E i \in 1..(Len(evaluated) - 1) : evaluated[i] = L2
              /\ OverBudget(L2) \/ outcome[L2] = "tilefail"

\* success at level 8 after level 10 was over budget and level 9 lost a tile
C3_Witness ==
    /\ maxZoom = 10 /\ WrittenLevels = {8}
    /\ OverBudget(10) /\ outcome[9] = "tilefail" /\ ~OverBudget(9)

C5_PlaceholderAbandonsLevel ==
    /\ pc = "fetch" => outcome[levl] = "fetching"
    /\ \A L \in Levels :
         outcome[L] = "tilefail" =>
            /\ L \in fetchedAt
            /\ L \notin WrittenLevels
            /\ WentOnFrom(L)
    /\ \A i \in 1..Len(written) :
         LET t == TileBox(written[i].level)
         IN  /\ written[i].tiles
                  = (t.tileX2 - t.tileX1 + 1) * (t.tileY2 - t.tileY1 + 1)
             /\ outcome[written[i].level] = "written"

\* a placeholder at level 10, whose range has several rows, then level 9 written
C5_Witness ==
    /\ maxZoom = 10 /\ outcome[10] = "tilefail" /\ WrittenLevels = {9}
    /\ TileBox(10).tileY2 > TileBox(10).tileY1
    /\ written[1].tiles > 1

\* C6: a network error while fetching a tile is treated like a placeholder
\* tile: the level is abandoned, the search goes on with the next coarser level
\* and the request is not ended by the error.
C6_FetchErrorAbandonsLevel ==
    \A L \in Levels :
        outcome[L] = "error" => pc # "raised" /\ WentOnFrom(L)

C8_DegenerateOnlyAtMaxZoom ==
    retval = "None" => SpanDegenerate(maxZoom)

\* C8 as amended: the degenerate outcome is reached only at a level where the
\* span is <= 1 in X or Y, which is maxZoom or a coarser level reached after
\* each finer level, none of them degenerate, was over budget or lost a tile.
C8_DegenerateAtStoppingLevel ==
    retval = "None" =>
        /\ evaluated # <<>>
        /\ levl = evaluated[Len(evaluated)]
        /\ SpanDegenerate(levl)
        /\ \A L2 \in (levl + 1)..maxZoom :
             /\ ~SpanDegenerate(L2)
             /\ OverBudget(L2) \/ outcome[L2] = "tilefail"

\* a box of more than 1 pixel in both axes at maxZoom that ends as degenerate
C8_Witness ==
    /\ retval = "None" /\ ~SpanDegenerate(maxZoom) /\ levl < maxZoom
    /\ outcome[maxZoom] = "tilefail"

\* C9: boundingBox(lat, lon, s, 2) returns upperLeft = (lat + d, lon - d) and
\* lowerRight = (lat - d, lon + d), d = s/3963 in degrees, the north-west and
\* south-east corners, and these are what BingAerialImage stores.  (Equality
\* is taken up to one micro-degree, the resolution of the conversions.)
C9_NorthWestSouthEast ==
    pc \notin {"new", "idle"} =>
        LET d == ArcOverRadius(arc, 3963) \div 10
            Near(a, b) == Abs(a - b) <= 1
        IN  /\ Near(upper_left[1], lat + d) /\ Near(upper_left[2], lon - d)
            /\ Near(lower_right[1], lat - d) /\ Near(lower_right[2], lon + d)
            /\ upper_left[1] >= lower_right[1]
            /\ upper_left[2] <= lower_right[2]

\* C10: the crop rectangle of every image written lies inside the composite
\* built with the session's tile size: 0 <= left < right <= width and
\* 0 <= top < bottom <= height.
C10_CropInsideComposite ==
    \A i \in 1..Len(written) :
        LET c == written[i].crop
            s == written[i].size
        IN  /\ 0 <= c[1] /\ c[1] < c[3] /\ c[3] <= s[1]
            /\ 0 <= c[2] /\ c[2] < c[4] /\ c[4] <= s[2]

====
